---- MODULE Spec2Model ----
(***************************************************************************)
(* State-machine model of the helpdesk ticketing client                    *)
(* (src/frontend/auth.js): the session store and the page-load checks, the *)
(* API gateway authorizedFetch, the ticket list view, the live-update      *)
(* channel and the support console (queues, accept flow, chat session).    *)
(*                                                                         *)
(* One action is one run of a handler from the event that starts it to its *)
(* next await (or its end).  A request in flight is an element of the bag  *)
(* `tasks`; the action that delivers its response runs the continuation.   *)
(* Strings of the program written in Cyrillic are transliterated.          *)
(***************************************************************************)
EXTENDS Integers, Sequences, FiniteSets, Bags, TLC

VARIABLES
    location,           \* the document shown: "index.html" or "login.html"
    phase,              \* "loading" before DOMContentLoaded, then "ready"
    href,               \* pending navigation target ("" when none)
    token,              \* localStorage has auth_token
    userData,           \* localStorage has user_data
    authToken,          \* the script's authToken/currentUser/userEmail are set
    isSupportUser,
    initPc,             \* initializeApp: "none", "support" (awaiting), "done";
                        \* "forms" on an auth page after initializeForms
    supportTabs,        \* the support tabs and sections are injected
    tasks,              \* bag of requests in flight
    toasts,             \* notifications shown by the latest handler run
    asked,              \* the latest handler run opened a confirm() dialog
    event,              \* the latest handler run: what ran and what it was given
    clears,             \* times authorizedFetch cleared the session on this page
    activeTab,
    currentPage,
    totalPages,
    currentFilters,
    served,             \* tickets of the latest ok list response, in server order
    grid,               \* tickets rendered in ticketsGrid, in order
    pagination,         \* controls rendered in the pagination container
    lastRequest,        \* query of the latest list request
    pageSetBy,          \* the handler that last assigned currentPage
    sockets,            \* live-update sockets that have not fired close yet
    websocket,          \* the global: "null", "live" (last of sockets), "dead"
    timers,             \* bag of pending reconnect timers (their delays)
    currentTicketId,
    modalVisible,       \* supportTicketModal is displayed
    shownTicket,        \* ticket rendered in supportTicketDetails
    chatMessages,       \* messages rendered in chatMessages
    chatInput,
    controls,           \* .ticket-controls exist in the chat modal
    chatPriority,       \* value of the chatPriority select
    badge,              \* text of the priority badge in the ticket details
    currentAcceptTicketId,
    acceptVisible,      \* acceptTicketModal is displayed
    unassignedGrid,     \* tickets rendered with an accept button
    assignedGrid        \* tickets rendered with an open-chat button

navVars == <<location, phase, href>>
storeVars == <<token, userData>>
sessVars == <<authToken, isSupportUser, initPc, supportTabs>>
listVars == <<activeTab, currentPage, totalPages, currentFilters, served, grid,
             pagination, lastRequest, pageSetBy>>
wsVars == <<sockets, websocket, timers>>
chatVars == <<currentTicketId, modalVisible, shownTicket, chatMessages, chatInput, controls, chatPriority, badge>>
acceptVars == <<currentAcceptTicketId, acceptVisible>>
queueVars == <<unassignedGrid, assignedGrid>>
vars == <<navVars, storeVars, sessVars, tasks, toasts, asked, event, clears, listVars, wsVars, chatVars, acceptVars, queueVars>>

----------------------------------------------------------------------------
(* Bounds *)
MaxInFlight == 2        \* requests in flight at once
MaxClears == 2          \* the clears counter saturates here
MaxPages == 3           \* largest total_pages a list response reports
MaxSortLen == 3         \* tickets in a list response when the order is checked
MaxSearchLen == 1       \* characters typed into searchInput
NumTickets == 2         \* tickets the support queues can hold
MaxMsgs == 2            \* messages in a chat
MaxInputLen == 1        \* characters typed into chatInput
MaxNotifyPages == 2     \* largest total_pages while live updates are followed
MaxPagerPages == 7      \* largest total_pages when the page controls are checked
MaxRedirects == 2       \* redirect timers pending at once after sign-in

(* Program constants *)
PageSize == 12
RedirectDelay == 1000
ReconnectDelay == 5000
RetryDelay == 10000

----------------------------------------------------------------------------
(* Values *)
Min(a, b) == IF a < b THEN a ELSE b
Max(a, b) == IF a > b THEN a ELSE b

Null == -1              \* null
EmptyId == 0            \* the empty string used as an id
Tickets == 1..NumTickets
Falsy(id) == id \in {Null, EmptyId}

ResponseStatus == {"ok", "err", "401", "reject"}

Statuses == {"otkryt", "v rabote", "v_processe", "reshen", "zakryt"}
Priorities == {"nizkiy", "vysokiy"}

SeqsUpTo(S, n) == UNION {[1..k -> S] : k \in 0..n}

NoEvent == [op |-> "none", arg |-> Null, st |-> "none", ret |-> "none"]
Ev(op, arg) == [op |-> op, arg |-> arg, st |-> "none", ret |-> "none"]

Task(fn, pc, arg, prio) == [fn |-> fn, pc |-> pc, arg |-> arg, prio |-> prio]
Add(b, t) == b (+) SetToBag({t})
Del(b, t) == b (-) SetToBag({t})
InFlight == BagToSet(tasks)
Room(n) == BagCardinality(tasks) + n <= MaxInFlight

----------------------------------------------------------------------------
(* API gateway *)

\* authorizedFetch with the user_data removal left out.
authorizedFetchKeepsUser(st) ==
    IF st = "401"
    THEN [token |-> FALSE, userData |-> userData, href |-> "login.html",
          ret |-> "undefined", cleared |-> 1]
    ELSE [token |-> token, userData |-> userData, href |-> href,
          ret |-> IF st = "reject" THEN "rejected" ELSE "response", cleared |-> 0]

\* authorizedFetch, from the response status on: what it leaves in storage,
\* where it sends the page, and what the caller gets.
authorizedFetch(st) ==
    IF st = "401"
    THEN [token |-> FALSE, userData |-> FALSE, href |-> "login.html",
          ret |-> "undefined", cleared |-> 1]
    ELSE [token |-> token, userData |-> userData, href |-> href,
          ret |-> IF st = "reject" THEN "rejected" ELSE "response", cleared |-> 0]

\* The caller's `response.ok` (a TypeError on undefined lands in its catch).
GotOk(st) == authorizedFetch(st).ret = "response" /\ st = "ok"
GotNotOk(st) == authorizedFetch(st).ret = "response" /\ st # "ok"

\* The gateway part of every action that delivers a response.
Deliver(op, arg, st) ==
    LET r == authorizedFetch(st)
    IN /\ token' = r.token
       /\ userData' = r.userData
       /\ href' = r.href
       /\ clears' = Min(clears + r.cleared, MaxClears)
       /\ event' = [op |-> op, arg |-> arg, st |-> st, ret |-> r.ret]

\* Deliver, for a handler that reads a value out of the body of an ok response:
\* ret then holds that value.
DeliverBody(op, arg, st, body) ==
    LET r == authorizedFetch(st)
    IN /\ token' = r.token
       /\ userData' = r.userData
       /\ href' = r.href
       /\ clears' = Min(clears + r.cleared, MaxClears)
       /\ event' = [op |-> op, arg |-> arg, st |-> st,
                    ret |-> IF r.ret = "response" /\ st = "ok" THEN body ELSE r.ret]

\* A handler run that delivers no response.
Local(op, arg) ==
    /\ event' = Ev(op, arg)
    /\ UNCHANGED <<token, userData, clears>>

----------------------------------------------------------------------------
(* Ticket list view *)

NoFilters == [status |-> "", category |-> "", priority |-> "", search_text |-> <<>>]

StatusValues == {"", "otkryt"}
CategoryValues == {"", "billing"}
PriorityValues == {"", "vysokiy"}
SearchTexts == SeqsUpTo({" ", "x"}, MaxSearchLen)
FilterControls == [status : StatusValues, category : CategoryValues,
                   priority : PriorityValues, search : SearchTexts]

RECURSIVE TrimLeft(_)
TrimLeft(s) == IF s # <<>> /\ Head(s) = " " THEN TrimLeft(Tail(s)) ELSE s
RECURSIVE TrimRight(_)
TrimRight(s) ==
    IF s # <<>> /\ s[Len(s)] = " " THEN TrimRight(SubSeq(s, 1, Len(s) - 1)) ELSE s
\* String.prototype.trim
Trim(s) == TrimRight(TrimLeft(s))

\* The filter object applyFilters builds from the form controls.
BuildFilters(c) ==
    [status |-> c.status, category |-> c.category, priority |-> c.priority,
     search_text |-> Trim(c.search)]

\* The query loadUserTickets sends.
Params(page, filters) ==
    [page |-> page, page_size |-> PageSize, filters |-> filters]
NoRequest == [page |-> 0, page_size |-> 0, filters |-> NoFilters]

\* A list request in flight, with the page it asks for.
ListTask(page) == Task("loadUserTickets", "fetch", page, "")
\* The list request handleWebSocketNotification issues.
NotifyTask(page) == Task("loadUserTickets", "notify", page, "")

\* The comparator with its operands swapped.
CompareReversed(a, b) ==
    (IF b.status \in {"otkryt", "v rabote", "zakryt"}
     THEN (("otkryt" :> 1) @@ ("v rabote" :> 2) @@ ("zakryt" :> 3))[b.status] ELSE 1)
    - (IF a.status \in {"otkryt", "v rabote", "zakryt"}
       THEN (("otkryt" :> 1) @@ ("v rabote" :> 2) @@ ("zakryt" :> 3))[a.status] ELSE 1)

statusOrder == ("otkryt" :> 1) @@ ("v rabote" :> 2) @@ ("zakryt" :> 3)
\* statusOrder[status] || 1
Rank(status) == IF status \in DOMAIN statusOrder THEN statusOrder[status] ELSE 1
Compare(a, b) == Rank(a.status) - Rank(b.status)

RECURSIVE Insert(_, _)
Insert(x, s) ==
    IF s = <<>> THEN <<x>>
    ELSE IF Compare(Head(s), x) > 0 THEN <<x>> \o s
    ELSE <<Head(s)>> \o Insert(x, Tail(s))
RECURSIVE SortFrom(_, _)
SortFrom(done, rest) ==
    IF rest = <<>> THEN done ELSE SortFrom(Insert(Head(rest), done), Tail(rest))
\* data.tickets.sort(...): a stable sort by Compare
SortTickets(list) == SortFrom(<<>>, list)

\* The ticket lists a response can carry: statuses in server order.
ListResponses(n) ==
    {[i \in 1..Len(s) |-> [status |-> s[i], idx |-> i]] : s \in SeqsUpTo(Statuses, n)}

NoPagination ==
    [shown |-> FALSE, prevDisabled |-> TRUE, prevTarget |-> 0, pages |-> {},
     active |-> {}, nextDisabled |-> TRUE, nextTarget |-> 0]
\* renderPagination with page buttons for currentPage - 1 .. currentPage + 1.
renderPaginationNarrow(total, cur) ==
    IF total <= 1 THEN NoPagination
    ELSE LET pages == Max(1, cur - 1)..Min(total, cur + 1)
         IN [shown |-> TRUE, prevDisabled |-> cur <= 1, prevTarget |-> cur - 1,
             pages |-> pages, active |-> {i \in pages : i = cur},
             nextDisabled |-> cur >= total, nextTarget |-> cur + 1]

\* renderPagination(data), with currentPage = cur
renderPagination(total, cur) ==
    IF total <= 1 THEN NoPagination
    ELSE LET pages == Max(1, cur - 2)..Min(total, cur + 2)
         IN [shown |-> TRUE, prevDisabled |-> cur <= 1, prevTarget |-> cur - 1,
             pages |-> pages, active |-> {i \in pages : i = cur},
             nextDisabled |-> cur >= total, nextTarget |-> cur + 1]
\* The pages the rendered controls pass to changePage.
ClickTargets(pg) ==
    IF ~pg.shown THEN {}
    ELSE pg.pages \cup (IF pg.prevDisabled THEN {} ELSE {pg.prevTarget})
                  \cup (IF pg.nextDisabled THEN {} ELSE {pg.nextTarget})

----------------------------------------------------------------------------
(* Initial values of the script's globals and of the document *)
FreshPage ==
    /\ authToken = FALSE /\ isSupportUser = FALSE /\ initPc = "none"
    /\ supportTabs = FALSE
    /\ tasks = EmptyBag /\ toasts = <<>> /\ asked = FALSE /\ event = NoEvent
    /\ clears = 0
    /\ activeTab = "home" /\ currentPage = 1 /\ totalPages = 1
    /\ currentFilters = NoFilters /\ served = <<>> /\ grid = <<>>
    /\ pagination = NoPagination
    /\ lastRequest = NoRequest /\ pageSetBy = ""
    /\ sockets = <<>> /\ websocket = "null" /\ timers = EmptyBag
    /\ currentTicketId = Null /\ modalVisible = FALSE /\ shownTicket = Null
    /\ chatMessages = <<>> /\ chatInput = <<>> /\ controls = FALSE
    /\ chatPriority = "" /\ badge = ""
    /\ currentAcceptTicketId = Null /\ acceptVisible = FALSE
    /\ unassignedGrid = {} /\ assignedGrid = {}

\* The same values, as the next state.
ResetPage ==
    /\ authToken' = FALSE /\ isSupportUser' = FALSE /\ initPc' = "none"
    /\ supportTabs' = FALSE
    /\ tasks' = EmptyBag /\ toasts' = <<>> /\ asked' = FALSE /\ event' = NoEvent
    /\ clears' = 0
    /\ activeTab' = "home" /\ currentPage' = 1 /\ totalPages' = 1
    /\ currentFilters' = NoFilters /\ served' = <<>> /\ grid' = <<>>
    /\ pagination' = NoPagination
    /\ lastRequest' = NoRequest /\ pageSetBy' = ""
    /\ sockets' = <<>> /\ websocket' = "null" /\ timers' = EmptyBag
    /\ currentTicketId' = Null /\ modalVisible' = FALSE /\ shownTicket' = Null
    /\ chatMessages' = <<>> /\ chatInput' = <<>> /\ controls' = FALSE
    /\ chatPriority' = "" /\ badge' = ""
    /\ currentAcceptTicketId' = Null /\ acceptVisible' = FALSE
    /\ unassignedGrid' = {} /\ assignedGrid' = {}

Quiet == toasts' = <<>> /\ asked' = FALSE

----------------------------------------------------------------------------
(* Live-update channel *)

\* connectWebSocket(), with tm the timers left pending; `throws` is whether the
\* WebSocket constructor throws.
connectWebSocket(throws, tm) ==
    IF throws
    THEN [sockets |-> sockets, websocket |-> websocket, timers |-> Add(tm, RetryDelay)]
    ELSE [sockets |-> Append(sockets, "connecting"), websocket |-> "live", timers |-> tm]

\* onclose that schedules nothing.
oncloseNoRetry(tm) == tm

\* websocket.onclose
onclose(tm) == Add(tm, ReconnectDelay)

Remove(s, i) == SubSeq(s, 1, i - 1) \o SubSeq(s, i + 1, Len(s))

----------------------------------------------------------------------------
(* Support console: what the capability flag gates *)

\* setupSupportInterface that injects the tabs whatever the flag says.
setupSupportInterfaceAlways(flag) == TRUE

\* setupSupportInterface(): TRUE when it injects the support tabs and sections.
setupSupportInterface(flag) == ~(~flag)

\* The request loadUnassignedTickets() sends, as a set of at most one task;
\* caller is "fetch" or the handler that awaits it.
loadUnassignedTickets(caller) ==
    IF ~isSupportUser THEN {} ELSE {Task("loadUnassignedTickets", caller, Null, "")}

\* The request loadAssignedTickets() sends.
loadAssignedTickets(caller) ==
    IF ~isSupportUser THEN {} ELSE {Task("loadAssignedTickets", caller, Null, "")}

----------------------------------------------------------------------------
(* Page load *)

\* The DOMContentLoaded handler of the auth script: the page it redirects to.
AuthPageCheck(loc, tok) ==
    IF tok /\ loc \in {"login.html", "register.html"} THEN "index.html"
    ELSE IF ~tok /\ loc = "index.html" THEN "login.html"
    ELSE ""

\* checkAuthentication that looks at the token only.
checkAuthenticationTokenOnly(tok, usr) == tok

\* checkAuthentication(): TRUE when it goes on to initializeApp.
checkAuthentication(tok, usr) == ~(~tok \/ ~usr)

DOMContentLoaded ==
    /\ phase = "loading"
    /\ phase' = "ready"
    /\ Local("DOMContentLoaded", Null)
    /\ Quiet
    /\ UNCHANGED <<location, isSupportUser, supportTabs, listVars, wsVars,
                   chatVars, acceptVars, queueVars>>
    /\ IF location = "index.html"
       THEN IF checkAuthentication(token, userData)
            THEN /\ authToken' = TRUE
                 /\ initPc' = "support"
                 /\ tasks' = Add(tasks, Task("checkSupportStatus", "fetch", Null, ""))
                 /\ href' = AuthPageCheck(location, token)
            ELSE /\ href' = "login.html"
                 /\ UNCHANGED <<authToken, initPc, tasks>>
       ELSE /\ href' = AuthPageCheck(location, token)
            /\ initPc' = IF href' = "" THEN "forms" ELSE initPc
            /\ UNCHANGED <<authToken, tasks>>

\* The browser leaves the document for the pending target: its script state,
\* requests, sockets and timers go with it; storage stays.
Unload ==
    /\ href # ""
    /\ location' = href
    /\ phase' = "loading"
    /\ href' = ""
    /\ UNCHANGED storeVars
    /\ ResetPage

\* checkSupportStatus that takes every answer but a rejection for a yes.
checkSupportStatusOptimistic(st, is_support) ==
    IF GotOk(st) THEN is_support
    ELSE IF GotNotOk(st) THEN TRUE
    ELSE FALSE

\* checkSupportStatus(): the value isSupportUser has after the call, from the
\* answer to GET /support/check and the is_support field of its body.  A non-ok
\* response leaves the flag as it is; a 401 or a rejection ends in the catch.
checkSupportStatus(st, is_support) ==
    IF GotOk(st) THEN is_support
    ELSE IF GotNotOk(st) THEN isSupportUser
    ELSE FALSE

\* initializeApp() after `await checkSupportStatus()`.
CheckSupportStatusDone ==
    \E st \in ResponseStatus, is_support \in BOOLEAN, throws \in BOOLEAN :
        LET t == Task("checkSupportStatus", "fetch", Null, "")
            flag == checkSupportStatus(st, is_support)
            ws == connectWebSocket(throws, timers)
        IN /\ phase = "ready" /\ initPc = "support"
           /\ BagIn(t, tasks)
           /\ DeliverBody("checkSupportStatus", Null, st,
                          IF is_support THEN "true" ELSE "false")
           /\ isSupportUser' = flag
           /\ supportTabs' = setupSupportInterface(flag)
           /\ initPc' = "done"
           /\ tasks' = Add(Del(tasks, t), ListTask(currentPage))
           /\ lastRequest' = Params(currentPage, currentFilters)
           /\ sockets' = ws.sockets /\ websocket' = ws.websocket /\ timers' = ws.timers
           /\ Quiet
           /\ UNCHANGED <<location, phase, authToken, activeTab, currentPage, totalPages, pageSetBy,
                          currentFilters, served, grid, pagination, chatVars, acceptVars,
                          queueVars>>

----------------------------------------------------------------------------
(* Handlers of the main page *)

Ready == phase = "ready" /\ initPc = "done"

\* loadUserTickets rendering a response only when it answers the latest
\* request.
LoadUserTicketsDoneLatestOnly(maxLen, maxPages) ==
    \E t \in InFlight, st \in ResponseStatus :
        /\ phase = "ready"
        /\ t.fn = "loadUserTickets"
        /\ Deliver(IF t.pc = "notify" THEN "loadUserTickets.notify" ELSE "loadUserTickets",
                   t.arg, st)
        /\ tasks' = Del(tasks, t)
        /\ IF GotOk(st)
           THEN \E list \in ListResponses(maxLen), total_pages \in 0..maxPages :
                    /\ served' = list
                    /\ toasts' = <<>>
                    /\ IF t.arg = lastRequest.page
                       THEN /\ grid' = SortTickets(list)
                            /\ totalPages' = total_pages
                            /\ pagination' = renderPagination(total_pages, currentPage)
                       ELSE UNCHANGED <<grid, totalPages, pagination>>
           ELSE /\ grid' = <<>>
                /\ toasts' = <<"error">>
                /\ UNCHANGED <<served, totalPages, pagination>>
        /\ asked' = FALSE
        /\ UNCHANGED <<location, phase, sessVars, activeTab, currentPage, currentFilters,
                       lastRequest, pageSetBy, wsVars, chatVars, acceptVars, queueVars>>

\* loadUserTickets(), from the response on.  A response that is not ok, no
\* response (401) and a rejected request all end in the catch block.
LoadUserTicketsDone(maxLen, maxPages) ==
    \E t \in InFlight, st \in ResponseStatus :
        /\ phase = "ready"
        /\ t.fn = "loadUserTickets"
        /\ Deliver(IF t.pc = "notify" THEN "loadUserTickets.notify" ELSE "loadUserTickets",
                   t.arg, st)
        /\ tasks' = Del(tasks, t)
        /\ IF GotOk(st)
           THEN \E list \in ListResponses(maxLen), total_pages \in 0..maxPages :
                    /\ served' = list
                    /\ grid' = SortTickets(list)
                    /\ totalPages' = total_pages
                    /\ pagination' = renderPagination(total_pages, currentPage)
                    /\ toasts' = <<>>
           ELSE /\ grid' = <<>>
                /\ toasts' = <<"error">>
                /\ UNCHANGED <<served, totalPages, pagination>>
        /\ asked' = FALSE
        /\ UNCHANGED <<location, phase, sessVars, activeTab, currentPage, currentFilters,
                       lastRequest, pageSetBy, wsVars, chatVars, acceptVars, queueVars>>

\* loadUserStats(), from the response on: it only fills the profile counters.
LoadUserStatsDone ==
    \E t \in InFlight, st \in ResponseStatus :
        /\ phase = "ready"
        /\ t.fn = "loadUserStats"
        /\ Deliver("loadUserStats", Null, st)
        /\ tasks' = Del(tasks, t)
        /\ Quiet
        /\ UNCHANGED <<location, phase, sessVars, listVars, wsVars, chatVars,
                       acceptVars, queueVars>>

AllTabs == {"home", "create", "profile", "unassigned", "assigned"}

\* The tabs a nav link exists for.
NavTabs == {"home", "create", "profile"}
              \cup (IF supportTabs THEN {"unassigned", "assigned"} ELSE {})

\* The request switchTab(tab) sends, as a set of at most one task.
TabRequest(tab) ==
    CASE tab = "home" -> {ListTask(currentPage)}
      [] tab = "profile" -> {Task("loadUserStats", "fetch", Null, "")}
      [] tab = "unassigned" -> loadUnassignedTickets("fetch")
      [] tab = "assigned" -> loadAssignedTickets("fetch")
      [] OTHER -> {}

\* The click listeners on the nav link of a tab: setupNavigationEvents runs
\* once from setupEventListeners and, for a support user, once more after the
\* support tabs are injected, over every nav link there is by then.
NavListeners(tab) ==
    IF supportTabs /\ tab \in {"home", "create", "profile"} THEN 2 ELSE 1

\* A click on a nav link: every listener on it runs switchTab(tabName).
switchTab(tab) ==
    /\ Ready
    /\ tab \in NavTabs
    /\ Room(NavListeners(tab) * Cardinality(TabRequest(tab)))
    /\ Local("switchTab", Null)
    /\ activeTab' = tab
    /\ tasks' = tasks (+) [t \in TabRequest(tab) |-> NavListeners(tab)]
    /\ lastRequest' = IF tab = "home" THEN Params(currentPage, currentFilters)
                      ELSE lastRequest
    /\ Quiet
    /\ UNCHANGED <<navVars, sessVars, currentPage, totalPages, currentFilters, served,
                   grid, pagination, pageSetBy, wsVars, chatVars, acceptVars, queueVars>>

\* applyFilters(), with the values the form controls hold.
applyFilters(c) ==
    /\ Ready
    /\ Room(1)
    /\ Local("applyFilters", Null)
    /\ currentFilters' = BuildFilters(c)
    /\ currentPage' = 1
    /\ tasks' = Add(tasks, ListTask(currentPage'))
    /\ lastRequest' = Params(currentPage', currentFilters')
    /\ pageSetBy' = "applyFilters"
    /\ Quiet
    /\ UNCHANGED <<navVars, sessVars, activeTab, totalPages, served, grid, pagination,
                   wsVars, chatVars, acceptVars, queueVars>>

\* changePage(page), from a click on a rendered pagination control.
changePage(page) ==
    /\ Ready
    /\ Room(1)
    /\ Local("changePage", page)
    /\ Quiet
    /\ IF page < 1 \/ page > totalPages \/ page = currentPage
       THEN UNCHANGED <<currentPage, tasks, lastRequest, pageSetBy>>
       ELSE /\ currentPage' = page
            /\ tasks' = Add(tasks, ListTask(page))
            /\ lastRequest' = Params(page, currentFilters)
            /\ pageSetBy' = "changePage"
    /\ UNCHANGED <<navVars, sessVars, activeTab, totalPages, currentFilters, served,
                   grid, pagination, wsVars, chatVars, acceptVars, queueVars>>

\* logout(), from a click on logout-btn.
logout ==
    /\ Ready
    /\ event' = Ev("logout", Null)
    /\ token' = FALSE /\ userData' = FALSE
    /\ sockets' = IF websocket = "live"
                  THEN [sockets EXCEPT ![Len(sockets)] = "closing"]
                  ELSE sockets
    /\ href' = "login.html"
    /\ Quiet
    /\ UNCHANGED <<location, phase, sessVars, tasks, clears, listVars, websocket, timers,
                   chatVars, acceptVars, queueVars>>

----------------------------------------------------------------------------
(* Sign-in, registration and the profile form *)

Pages == {"login.html", "register.html", "index.html"}

\* The values typed into a password field.
Passwords == {"a", "b"}

\* The submit button of a form is disabled while its request is in flight.
Submitting(fn) == \E t \in InFlight : t.fn = fn

\* What a sign-in or registration response leaves behind: AuthAPI throws on
\* every response that is not ok and on a rejected request.
AuthDone(fn, op) ==
    \E t \in InFlight, st \in ResponseStatus :
        /\ phase = "ready"
        /\ t.fn = fn
        /\ st = "ok" => CopiesIn(RedirectDelay, timers) < MaxRedirects
        /\ event' = [op |-> op, arg |-> Null, st |-> st,
                     ret |-> IF st = "reject" THEN "rejected" ELSE "response"]
        /\ tasks' = Del(tasks, t)
        /\ IF st = "ok"
           THEN /\ token' = TRUE
                /\ userData' = TRUE
                /\ toasts' = <<"success">>
                /\ timers' = Add(timers, RedirectDelay)
           ELSE /\ toasts' = <<"error">>
                /\ UNCHANGED <<token, userData, timers>>
        /\ asked' = FALSE
        /\ UNCHANGED <<navVars, sessVars, clears, listVars, sockets, websocket, chatVars,
                       acceptVars, queueVars>>

\* handleLogin(event), up to the request.
handleLogin ==
    /\ phase = "ready" /\ location = "login.html" /\ initPc = "forms"
    /\ ~Submitting("handleLogin")
    /\ Room(1)
    /\ Local("handleLogin", Null)
    /\ tasks' = Add(tasks, Task("handleLogin", "post", Null, ""))
    /\ Quiet
    /\ UNCHANGED <<navVars, sessVars, listVars, wsVars, chatVars, acceptVars, queueVars>>

\* handleLogin(event), from the response on.
HandleLoginDone == AuthDone("handleLogin", "handleLogin.response")

\* The password comparison that lets every pair pass.
PasswordsDifferNever(password, confirmPassword) == FALSE

\* handleRegister: `password !== confirmPassword`
PasswordsDiffer(password, confirmPassword) == password # confirmPassword

\* handleRegister(event), up to the request.
handleRegister(password, confirmPassword) ==
    /\ phase = "ready" /\ location = "register.html" /\ initPc = "forms"
    /\ ~Submitting("handleRegister")
    /\ Room(1)
    /\ event' = [Ev("handleRegister", Null) EXCEPT
                     !.st = IF password = confirmPassword THEN "same" ELSE "different"]
    /\ UNCHANGED <<token, userData, clears>>
    /\ IF PasswordsDiffer(password, confirmPassword)
       THEN /\ toasts' = <<"error">>
            /\ tasks' = tasks
       ELSE /\ toasts' = <<>>
            /\ tasks' = Add(tasks, Task("handleRegister", "post", Null, ""))
    /\ asked' = FALSE
    /\ UNCHANGED <<navVars, sessVars, listVars, wsVars, chatVars, acceptVars, queueVars>>

\* handleRegister(event), from the response on.
HandleRegisterDone == AuthDone("handleRegister", "handleRegister.response")

\* The timer set after a successful sign-in or registration fires.
LoginRedirect ==
    /\ phase = "ready"
    /\ BagIn(RedirectDelay, timers)
    /\ timers' = Del(timers, RedirectDelay)
    /\ href' = "index.html"
    /\ Local("redirect", RedirectDelay)
    /\ Quiet
    /\ UNCHANGED <<location, phase, sessVars, tasks, listVars, sockets, websocket,
                   chatVars, acceptVars, queueVars>>

\* handleProfileUpdate(event), up to the request; changed is whether the form
\* differs from currentUser.
handleProfileUpdate(changed) ==
    /\ Ready
    /\ activeTab = "profile"
    /\ ~Submitting("handleProfileUpdate")
    /\ Room(1)
    /\ event' = [Ev("handleProfileUpdate", Null) EXCEPT
                     !.st = IF changed THEN "changed" ELSE "same"]
    /\ UNCHANGED <<token, userData, clears>>
    /\ IF changed
       THEN /\ toasts' = <<>>
            /\ tasks' = Add(tasks, Task("handleProfileUpdate", "put", Null, ""))
       ELSE /\ toasts' = <<"info">>
            /\ tasks' = tasks
    /\ asked' = FALSE
    /\ UNCHANGED <<navVars, sessVars, listVars, wsVars, chatVars, acceptVars, queueVars>>

\* handleProfileUpdate(event), from the response on: an ok response is stored
\* with TokenManager.setUser and loadProfileData requests the statistics.
HandleProfileUpdateDone ==
    \E t \in InFlight, st \in ResponseStatus :
        LET r == authorizedFetch(st)
        IN /\ phase = "ready"
           /\ t.fn = "handleProfileUpdate"
           /\ token' = r.token
           /\ userData' = IF GotOk(st) THEN TRUE ELSE r.userData
           /\ href' = r.href
           /\ clears' = Min(clears + r.cleared, MaxClears)
           /\ event' = [op |-> "handleProfileUpdate.response", arg |-> Null,
                        st |-> st, ret |-> r.ret]
           /\ IF GotOk(st)
              THEN /\ tasks' = Add(Del(tasks, t), Task("loadUserStats", "fetch", Null, ""))
                   /\ toasts' = <<"success">>
              ELSE /\ tasks' = Del(tasks, t)
                   /\ toasts' = <<"error">>
           /\ asked' = FALSE
           /\ UNCHANGED <<location, phase, sessVars, listVars, wsVars, chatVars,
                          acceptVars, queueVars>>

----------------------------------------------------------------------------
(* Live-update channel: socket events and the reconnect timer *)

WsOpen ==
    \E i \in DOMAIN sockets :
        /\ phase = "ready"
        /\ sockets[i] = "connecting"
        /\ sockets' = [sockets EXCEPT ![i] = "open"]
        /\ Local("ws.onopen", Null)
        /\ Quiet
        /\ UNCHANGED <<navVars, sessVars, tasks, listVars, websocket, timers,
                       chatVars, acceptVars, queueVars>>

\* An error event: onerror only logs; the socket then closes.
WsError ==
    \E i \in DOMAIN sockets :
        /\ phase = "ready"
        /\ sockets[i] \in {"connecting", "open"}
        /\ sockets' = [sockets EXCEPT ![i] = "closing"]
        /\ Local("ws.onerror", Null)
        /\ Quiet
        /\ UNCHANGED <<navVars, sessVars, tasks, listVars, websocket, timers,
                       chatVars, acceptVars, queueVars>>

\* A close event on socket i runs its onclose.
WsClose ==
    \E i \in DOMAIN sockets :
        /\ phase = "ready"
        /\ sockets' = Remove(sockets, i)
        /\ websocket' = IF websocket = "live" /\ i = Len(sockets) THEN "dead"
                        ELSE websocket
        /\ timers' = onclose(timers)
        /\ Local("ws.onclose", Null)
        /\ Quiet
        /\ UNCHANGED <<navVars, sessVars, tasks, listVars, chatVars, acceptVars, queueVars>>

\* A reconnect timer that stays pending after it has fired.
TimerFireRepeating ==
    \E d \in BagToSet(timers) \cap {ReconnectDelay, RetryDelay}, throws \in BOOLEAN :
        LET ws == connectWebSocket(throws, timers)
        IN /\ phase = "ready"
           /\ Len(sockets) < 2
           /\ sockets' = ws.sockets /\ websocket' = ws.websocket
           /\ timers' = IF throws THEN timers ELSE ws.timers
           /\ event' = [Ev("connectWebSocket", d) EXCEPT
                            !.ret = IF throws THEN "throw" ELSE "socket"]
           /\ UNCHANGED <<token, userData, clears>>
           /\ Quiet
           /\ UNCHANGED <<navVars, sessVars, tasks, listVars, chatVars, acceptVars, queueVars>>

\* A reconnect timer fires and runs connectWebSocket.
TimerFire ==
    \E d \in BagToSet(timers) \cap {ReconnectDelay, RetryDelay}, throws \in BOOLEAN :
        LET ws == connectWebSocket(throws, Del(timers, d))
        IN /\ phase = "ready"
           /\ sockets' = ws.sockets /\ websocket' = ws.websocket /\ timers' = ws.timers
           /\ event' = [Ev("connectWebSocket", d) EXCEPT
                            !.ret = IF throws THEN "throw" ELSE "socket"]
           /\ UNCHANGED <<token, userData, clears>>
           /\ Quiet
           /\ UNCHANGED <<navVars, sessVars, tasks, listVars, chatVars, acceptVars, queueVars>>

\* The envelopes a socket message can carry.  `parsed` is whether JSON.parse
\* succeeds; ticket is "none", "mine" (reporter_email is the user's) or "other".
Notifications ==
    [parsed : BOOLEAN,
     event : {"connected", "created", "updated", "comment_added", "deleted"},
     ticket : {"none", "mine", "other"}]

\* handleWebSocketNotification with the reporter comparison left out.
NotificationMessageAnyReporter(n) ==
    IF n.ticket # "none" /\ n.event \in {"created", "updated", "comment_added"}
    THEN n.event ELSE ""

\* handleWebSocketNotification: the toast message ("" when none).
NotificationMessage(n) ==
    IF n.ticket = "mine" /\ n.event \in {"created", "updated", "comment_added"}
    THEN n.event ELSE ""

\* The record of a socket message in `event`: st is the event name of the
\* envelope ("unparsable" when JSON.parse throws), ret whose ticket it carries.
Received(n) ==
    [op |-> "ws.onmessage", arg |-> Null,
     st |-> IF n.parsed THEN n.event ELSE "unparsable",
     ret |-> IF n.parsed THEN n.ticket ELSE "none"]

\* websocket.onmessage
WsMessage ==
    \E i \in DOMAIN sockets, n \in Notifications :
        LET handled == n.parsed /\ n.event # "connected"
            message == IF handled THEN NotificationMessage(n) ELSE ""
            refetch == message # "" /\ activeTab = "home"
        IN /\ phase = "ready"
           /\ sockets[i] = "open"
           /\ refetch => Room(1)
           /\ event' = Received(n)
           /\ UNCHANGED <<token, userData, clears>>
           /\ toasts' = IF message # "" THEN <<"success">> ELSE <<>>
           /\ asked' = FALSE
           /\ tasks' = IF refetch THEN Add(tasks, NotifyTask(currentPage)) ELSE tasks
           /\ lastRequest' = IF refetch THEN Params(currentPage, currentFilters)
                             ELSE lastRequest
           /\ UNCHANGED <<navVars, sessVars, activeTab, currentPage, totalPages,
                          currentFilters, served, grid, pagination, pageSetBy, wsVars,
                          chatVars,
                          acceptVars, queueVars>>

----------------------------------------------------------------------------
(* Support console: the two queues *)

\* What no handler of the support console touches.
SupportFrame == UNCHANGED <<location, phase, sessVars, listVars, wsVars>>

\* The ticket lists a queue response can carry.
QueueLists == SUBSET Tickets

\* Queue requests awaited by a handler that was started for ticketId: its
\* closure keeps ticketId until the handler ends.
Awaited(requests, ticketId) == {[q EXCEPT !.arg = ticketId] : q \in requests}

\* loadUnassignedTickets(), from the response on, with the lists the server
\* can answer; then the caller goes on to its `await loadAssignedTickets()`.
LoadUnassignedTicketsDone(lists) ==
    \E t \in InFlight, st \in ResponseStatus :
        /\ phase = "ready"
        /\ t.fn = "loadUnassignedTickets"
        /\ Deliver("loadUnassignedTickets", t.arg, st)
        /\ IF GotOk(st)
           THEN /\ \E shown \in lists : unassignedGrid' = shown
                /\ toasts' = <<>>
           ELSE /\ toasts' = <<"error">>
                /\ UNCHANGED unassignedGrid
        /\ tasks' = Del(tasks, t) (+)
                    SetToBag(IF t.pc = "fetch" THEN {}
                             ELSE Awaited(loadAssignedTickets(t.pc), t.arg))
        /\ asked' = FALSE
        /\ SupportFrame
        /\ UNCHANGED <<chatVars, acceptVars, assignedGrid>>

\* loadAssignedTickets(), from the response on; closeTicket, when it is the
\* caller, then empties and hides the chat modal and clears currentTicketId.
LoadAssignedTicketsDone(lists) ==
    \E t \in InFlight, st \in ResponseStatus :
        /\ phase = "ready"
        /\ t.fn = "loadAssignedTickets"
        /\ Deliver("loadAssignedTickets", t.arg, st)
        /\ IF GotOk(st)
           THEN /\ \E shown \in lists : assignedGrid' = shown
                /\ toasts' = <<>>
           ELSE /\ toasts' = <<"error">>
                /\ UNCHANGED assignedGrid
        /\ tasks' = Del(tasks, t)
        /\ IF t.pc = "closeTicket"
           THEN /\ chatMessages' = <<>>
                /\ shownTicket' = Null
                /\ badge' = ""
                /\ modalVisible' = FALSE
                /\ currentTicketId' = Null
                /\ UNCHANGED <<chatInput, controls, chatPriority>>
           ELSE UNCHANGED chatVars
        /\ asked' = FALSE
        /\ SupportFrame
        /\ UNCHANGED <<acceptVars, unassignedGrid>>

----------------------------------------------------------------------------
(* Support console: accepting a ticket *)

\* The values the acceptPriority select can hold ("" is the unset default).
AcceptPriorities == {""} \cup Priorities

\* showAcceptTicketModal(ticketId), from the accept button of a rendered card.
showAcceptTicketModal(ticketId) ==
    /\ Ready
    /\ activeTab = "unassigned"
    /\ ticketId \in unassignedGrid
    /\ ~acceptVisible /\ ~modalVisible
    /\ Room(1)
    /\ Local("showAcceptTicketModal", ticketId)
    /\ currentAcceptTicketId' = ticketId
    /\ acceptVisible' = TRUE
    /\ tasks' = Add(tasks, Task("loadTicketForAccept", "fetch", ticketId, ""))
    /\ Quiet
    /\ UNCHANGED href
    /\ SupportFrame
    /\ UNCHANGED <<chatVars, queueVars>>

\* loadTicketForAccept(ticketId), from the response on: it fills the details
\* of the accept modal or shows an error.
LoadTicketForAcceptDone ==
    \E t \in InFlight, st \in ResponseStatus :
        /\ phase = "ready"
        /\ t.fn = "loadTicketForAccept"
        /\ Deliver("loadTicketForAccept", t.arg, st)
        /\ tasks' = Del(tasks, t)
        /\ toasts' = IF GotOk(st) THEN <<>> ELSE <<"error">>
        /\ asked' = FALSE
        /\ SupportFrame
        /\ UNCHANGED <<chatVars, acceptVars, queueVars>>

\* closeAcceptModal(), from the close or the cancel button.
closeAcceptModal ==
    /\ Ready
    /\ acceptVisible
    /\ Local("closeAcceptModal", currentAcceptTicketId)
    /\ acceptVisible' = FALSE
    /\ currentAcceptTicketId' = Null
    /\ Quiet
    /\ UNCHANGED <<href, tasks>>
    /\ SupportFrame
    /\ UNCHANGED <<chatVars, queueVars>>

\* confirmAcceptTicket(), from the confirm button, up to the assign request.
confirmAcceptTicket ==
    \E priority \in AcceptPriorities :
        /\ Ready
        /\ acceptVisible
        /\ Room(1)
        /\ Local("confirmAcceptTicket", currentAcceptTicketId)
        /\ tasks' = IF Falsy(currentAcceptTicketId) THEN tasks
                    ELSE Add(tasks, Task("confirmAcceptTicket", "assign",
                                         currentAcceptTicketId, priority))
        /\ Quiet
        /\ UNCHANGED href
        /\ SupportFrame
        /\ UNCHANGED <<chatVars, acceptVars, queueVars>>

\* confirmAcceptTicket going on to the priority PATCH whatever the assign
\* response was.
ConfirmAcceptAssignUnchecked ==
    \E t \in InFlight, st \in ResponseStatus :
        /\ phase = "ready"
        /\ t.fn = "confirmAcceptTicket" /\ t.pc = "assign"
        /\ Deliver("confirmAcceptTicket.assign", t.arg, st)
        /\ tasks' = Add(Del(tasks, t),
                        Task("confirmAcceptTicket", "priority",
                             currentAcceptTicketId, t.prio))
        /\ toasts' = <<>>
        /\ asked' = FALSE
        /\ SupportFrame
        /\ UNCHANGED <<chatVars, acceptVars, queueVars>>

\* confirmAcceptTicket(), from the assign response to the priority PATCH, which
\* goes to the ticket currentAcceptTicketId names by then.
ConfirmAcceptAssignDone ==
    \E t \in InFlight, st \in ResponseStatus :
        /\ phase = "ready"
        /\ t.fn = "confirmAcceptTicket" /\ t.pc = "assign"
        /\ Deliver("confirmAcceptTicket.assign", t.arg, st)
        /\ IF GotOk(st)
           THEN /\ tasks' = Add(Del(tasks, t),
                                Task("confirmAcceptTicket", "priority",
                                     currentAcceptTicketId, t.prio))
                /\ toasts' = <<>>
           ELSE /\ tasks' = Del(tasks, t)
                /\ toasts' = <<"error">>
        /\ asked' = FALSE
        /\ SupportFrame
        /\ UNCHANGED <<chatVars, acceptVars, queueVars>>

\* confirmAcceptTicket with a failed priority update treated like a failed
\* assignment.
confirmAcceptTicketPriorityFatal(st) ==
    IF GotOk(st)
    THEN [toasts |-> <<"success">>, accepted |-> TRUE]
    ELSE [toasts |-> <<"error">>, accepted |-> FALSE]

\* confirmAcceptTicket(), what follows the priority response: the toasts, and
\* whether it goes on to close the modal and refresh the queues.  Reading
\* `.status` of no response throws into the catch block.
confirmAcceptTicketPriority(st) ==
    IF authorizedFetch(st).ret # "response"
    THEN [toasts |-> <<"error">>, accepted |-> FALSE]
    ELSE [toasts |-> (IF st # "ok" THEN <<"warning">> ELSE <<>>) \o <<"success">>,
          accepted |-> TRUE]

\* The two queue requests of `Promise.all([loadUnassignedTickets(),
\* loadAssignedTickets()])`.
RefreshBoth == loadUnassignedTickets("fetch") \cup loadAssignedTickets("fetch")

\* confirmAcceptTicket(), from the priority response on.
ConfirmAcceptPriorityDone ==
    \E t \in InFlight, st \in ResponseStatus :
        LET r == confirmAcceptTicketPriority(st)
        IN /\ phase = "ready"
           /\ t.fn = "confirmAcceptTicket" /\ t.pc = "priority"
           /\ Room(1)
           /\ Deliver("confirmAcceptTicket.priority", t.arg, st)
           /\ toasts' = r.toasts
           /\ IF r.accepted
              THEN /\ acceptVisible' = FALSE
                   /\ currentAcceptTicketId' = Null
                   /\ tasks' = Del(tasks, t) (+) SetToBag(RefreshBoth)
              ELSE /\ tasks' = Del(tasks, t)
                   /\ UNCHANGED acceptVars
           /\ asked' = FALSE
           /\ SupportFrame
           /\ UNCHANGED <<chatVars, queueVars>>

----------------------------------------------------------------------------
(* Support console: the chat session *)

\* The message lists a ticket can come with.
Histories == {[i \in 1..n |-> "in"] : n \in 0..(MaxMsgs - 1)}
ChatInputs == SeqsUpTo({" ", "a"}, MaxInputLen)

\* openSupportTicketModal(ticketId), from the chat button of a rendered card,
\* up to the ticket request.
openSupportTicketModal(ticketId) ==
    /\ Ready
    /\ activeTab = "assigned"
    /\ ticketId \in assignedGrid
    /\ ~acceptVisible /\ ~modalVisible
    /\ Room(1)
    /\ Local("openSupportTicketModal", ticketId)
    /\ currentTicketId' = ticketId
    /\ tasks' = Add(tasks, Task("openSupportTicketModal", "ticket", ticketId, ""))
    /\ Quiet
    /\ UNCHANGED <<href, modalVisible, shownTicket, chatMessages, chatInput, controls,
                   chatPriority, badge>>
    /\ SupportFrame
    /\ UNCHANGED <<acceptVars, queueVars>>

\* openSupportTicketModal(), from the ticket response to the messages request,
\* with the priorities the ticket can come with.
OpenTicketDone(priorities) ==
    \E t \in InFlight, st \in ResponseStatus, priority \in priorities :
        /\ phase = "ready"
        /\ t.fn = "openSupportTicketModal" /\ t.pc = "ticket"
        /\ Deliver("openSupportTicketModal.ticket", t.arg, st)
        /\ IF GotOk(st)
           THEN /\ tasks' = Add(Del(tasks, t),
                                Task("openSupportTicketModal", "messages", t.arg, priority))
                /\ toasts' = <<>>
           ELSE /\ tasks' = Del(tasks, t)
                /\ toasts' = <<"error">>
        /\ asked' = FALSE
        /\ SupportFrame
        /\ UNCHANGED <<chatVars, acceptVars, queueVars>>

\* openSupportTicketModal(), from the messages response on: it renders the
\* ticket and its messages, injects the controls when there are none yet,
\* shows the modal and sends the mark-read request.
OpenMessagesDone(histories) ==
    \E t \in InFlight, st \in ResponseStatus, messages \in histories :
        /\ phase = "ready"
        /\ t.fn = "openSupportTicketModal" /\ t.pc = "messages"
        /\ Deliver("openSupportTicketModal.messages", t.arg, st)
        /\ IF GotOk(st)
           THEN /\ shownTicket' = t.arg
                /\ badge' = t.prio
                /\ chatMessages' = messages
                /\ controls' = TRUE
                /\ chatPriority' = IF controls THEN chatPriority ELSE t.prio
                /\ modalVisible' = TRUE
                /\ tasks' = Add(Del(tasks, t),
                                Task("openSupportTicketModal", "markread", t.arg, ""))
                /\ toasts' = <<>>
           ELSE /\ tasks' = Del(tasks, t)
                /\ toasts' = <<"error">>
                /\ UNCHANGED <<shownTicket, badge, chatMessages, controls, chatPriority,
                               modalVisible>>
        /\ asked' = FALSE
        /\ SupportFrame
        /\ UNCHANGED <<currentTicketId, chatInput, acceptVars, queueVars>>

\* openSupportTicketModal(), from the mark-read response on: the response is
\* not looked at; a rejected request ends in the catch block.
OpenMarkReadDone ==
    \E t \in InFlight, st \in ResponseStatus :
        /\ phase = "ready"
        /\ t.fn = "openSupportTicketModal" /\ t.pc = "markread"
        /\ Deliver("openSupportTicketModal.markread", t.arg, st)
        /\ tasks' = Del(tasks, t)
        /\ toasts' = IF authorizedFetch(st).ret = "rejected" THEN <<"error">> ELSE <<>>
        /\ asked' = FALSE
        /\ SupportFrame
        /\ UNCHANGED <<chatVars, acceptVars, queueVars>>

\* The close button hiding the modal without resetting currentTicketId.
CloseSupportModalKeepsPointer ==
    /\ Ready
    /\ modalVisible
    /\ Local("closeSupportModal", currentTicketId)
    /\ modalVisible' = FALSE
    /\ Quiet
    /\ UNCHANGED <<href, tasks, currentTicketId, shownTicket, chatMessages, chatInput,
                   controls, chatPriority, badge>>
    /\ SupportFrame
    /\ UNCHANGED <<acceptVars, queueVars>>

\* closeBtn.onclick and the backdrop click of modal.onclick.
CloseSupportModal ==
    /\ Ready
    /\ modalVisible
    /\ Local("closeSupportModal", currentTicketId)
    /\ modalVisible' = FALSE
    /\ currentTicketId' = Null
    /\ Quiet
    /\ UNCHANGED <<href, tasks, shownTicket, chatMessages, chatInput, controls,
                   chatPriority, badge>>
    /\ SupportFrame
    /\ UNCHANGED <<acceptVars, queueVars>>

\* The user edits the chat input.
TypeChatInput ==
    \E text \in ChatInputs :
        /\ Ready
        /\ modalVisible
        /\ text # chatInput
        /\ Local("chatInput", Null)
        /\ chatInput' = text
        /\ Quiet
        /\ UNCHANGED <<href, tasks, currentTicketId, modalVisible, shownTicket,
                       chatMessages, controls, chatPriority, badge>>
        /\ SupportFrame
        /\ UNCHANGED <<acceptVars, queueVars>>

\* The content test that looks at the raw input.
NoContentUntrimmed(value) == value = <<>>

\* sendMessage: `!content`, with content = chatInput.value.trim()
NoContent(value) == Trim(value) = <<>>

\* sendMessage, from the send button or the Enter key, up to the POST.
sendMessage ==
    /\ Ready
    /\ modalVisible
    /\ Room(1)
    /\ Local("sendMessage", currentTicketId)
    /\ tasks' = IF NoContent(chatInput) \/ Falsy(currentTicketId) THEN tasks
                ELSE Add(tasks, Task("sendMessage", "post", currentTicketId, ""))
    /\ Quiet
    /\ UNCHANGED href
    /\ SupportFrame
    /\ UNCHANGED <<chatVars, acceptVars, queueVars>>

\* sendMessage putting the echoed message in front of the list and keeping
\* the input.
SendMessageDonePrepends ==
    \E t \in InFlight, st \in ResponseStatus :
        /\ phase = "ready"
        /\ t.fn = "sendMessage"
        /\ GotOk(st) => Len(chatMessages) < MaxMsgs
        /\ Deliver("sendMessage.response", t.arg, st)
        /\ tasks' = Del(tasks, t)
        /\ IF GotOk(st)
           THEN /\ chatMessages' = <<"out">> \o chatMessages
                /\ toasts' = <<>>
           ELSE /\ toasts' = <<"error">>
                /\ UNCHANGED chatMessages
        /\ UNCHANGED chatInput
        /\ asked' = FALSE
        /\ SupportFrame
        /\ UNCHANGED <<currentTicketId, modalVisible, shownTicket, controls, chatPriority,
                       badge, acceptVars, queueVars>>

\* sendMessage, from the POST response on: the echoed message is appended to
\* the list on display and the input is emptied.
SendMessageDone ==
    \E t \in InFlight, st \in ResponseStatus :
        /\ phase = "ready"
        /\ t.fn = "sendMessage"
        /\ GotOk(st) => Len(chatMessages) < MaxMsgs
        /\ Deliver("sendMessage.response", t.arg, st)
        /\ tasks' = Del(tasks, t)
        /\ IF GotOk(st)
           THEN /\ chatMessages' = Append(chatMessages, "out")
                /\ chatInput' = <<>>
                /\ toasts' = <<>>
           ELSE /\ toasts' = <<"error">>
                /\ UNCHANGED <<chatMessages, chatInput>>
        /\ asked' = FALSE
        /\ SupportFrame
        /\ UNCHANGED <<currentTicketId, modalVisible, shownTicket, controls, chatPriority,
                       badge, acceptVars, queueVars>>

\* The ids the two management functions can be called with.
Ids == {Null, EmptyId} \cup Tickets

\* The id test that only rejects an empty id.
WrongTicketEmptyOnly(ticketId) == Falsy(ticketId)

\* updateTicketPriority, closeTicket: `!ticketId || ticketId !== currentTicketId`
WrongTicket(ticketId) == Falsy(ticketId) \/ ticketId # currentTicketId

\* updateTicketPriority(ticketId), up to the PATCH.
updateTicketPriority(ticketId) ==
    /\ Ready
    /\ modalVisible
    /\ Room(1)
    /\ Local("updateTicketPriority", ticketId)
    /\ tasks' = IF WrongTicket(ticketId) \/ ~controls THEN tasks
                ELSE Add(tasks, Task("updateTicketPriority", "patch", ticketId,
                                     chatPriority))
    /\ Quiet
    /\ UNCHANGED href
    /\ SupportFrame
    /\ UNCHANGED <<chatVars, acceptVars, queueVars>>

\* The user picks another option of the chatPriority select.
SelectChatPriority ==
    \E priority \in Priorities :
        /\ Ready
        /\ modalVisible /\ controls
        /\ priority # chatPriority
        /\ Local("chatPriority", Null)
        /\ chatPriority' = priority
        /\ Quiet
        /\ UNCHANGED <<href, tasks, currentTicketId, modalVisible, shownTicket,
                       chatMessages, chatInput, controls, badge>>
        /\ SupportFrame
        /\ UNCHANGED <<acceptVars, queueVars>>

\* updateTicketPriority showing the priority it sent instead of the one in
\* the response.
UpdateTicketPriorityDoneShowsSent(priorities) ==
    \E t \in InFlight, st \in ResponseStatus, updated \in priorities :
        /\ phase = "ready"
        /\ t.fn = "updateTicketPriority"
        /\ DeliverBody("updateTicketPriority.response", t.arg, st, updated)
        /\ IF GotOk(st)
           THEN /\ chatPriority' = IF controls THEN t.prio ELSE chatPriority
                /\ badge' = IF shownTicket # Null THEN t.prio ELSE badge
                /\ toasts' = <<"success">>
                /\ tasks' = Del(tasks, t) (+)
                            SetToBag(Awaited(loadUnassignedTickets("updateTicketPriority"),
                                             t.arg))
           ELSE /\ toasts' = <<"error">>
                /\ tasks' = Del(tasks, t)
                /\ UNCHANGED <<chatPriority, badge>>
        /\ asked' = FALSE
        /\ SupportFrame
        /\ UNCHANGED <<currentTicketId, modalVisible, shownTicket, chatMessages, chatInput,
                       controls, acceptVars, queueVars>>

\* updateTicketPriority(), from the PATCH response to the first queue refresh;
\* the server answers with the ticket as updated, its priority one of
\* priorities.
UpdateTicketPriorityDone(priorities) ==
    \E t \in InFlight, st \in ResponseStatus, updated \in priorities :
        /\ phase = "ready"
        /\ t.fn = "updateTicketPriority"
        /\ DeliverBody("updateTicketPriority.response", t.arg, st, updated)
        /\ IF GotOk(st)
           THEN /\ chatPriority' = IF controls THEN updated ELSE chatPriority
                /\ badge' = IF shownTicket # Null THEN updated ELSE badge
                /\ toasts' = <<"success">>
                /\ tasks' = Del(tasks, t) (+)
                            SetToBag(Awaited(loadUnassignedTickets("updateTicketPriority"),
                                             t.arg))
           ELSE /\ toasts' = <<"error">>
                /\ tasks' = Del(tasks, t)
                /\ UNCHANGED <<chatPriority, badge>>
        /\ asked' = FALSE
        /\ SupportFrame
        /\ UNCHANGED <<currentTicketId, modalVisible, shownTicket, chatMessages, chatInput,
                       controls, acceptVars, queueVars>>

\* The record of a closeTicket call in `event`: ret is what confirm()
\* returned, "none" when it was not called.
Closing(ticketId, answer) ==
    [Ev("closeTicket", ticketId) EXCEPT
        !.ret = IF WrongTicket(ticketId) THEN "none"
                ELSE IF answer THEN "confirmed" ELSE "declined"]

\* closeTicket sending the PATCH whatever confirm() returns.
closeTicketUnasked(ticketId, answer) ==
    /\ Ready
    /\ modalVisible
    /\ Room(1)
    /\ event' = Closing(ticketId, answer)
    /\ UNCHANGED <<token, userData, clears>>
    /\ asked' = ~WrongTicket(ticketId)
    /\ tasks' = IF WrongTicket(ticketId) THEN tasks
                ELSE Add(tasks, Task("closeTicket", "patch", ticketId, ""))
    /\ toasts' = <<>>
    /\ UNCHANGED href
    /\ SupportFrame
    /\ UNCHANGED <<chatVars, acceptVars, queueVars>>

\* closeTicket(ticketId), up to the PATCH; answer is what confirm() returns.
closeTicket(ticketId, answer) ==
    /\ Ready
    /\ modalVisible
    /\ Room(1)
    /\ event' = Closing(ticketId, answer)
    /\ UNCHANGED <<token, userData, clears>>
    /\ asked' = ~WrongTicket(ticketId)
    /\ tasks' = IF WrongTicket(ticketId) \/ ~answer THEN tasks
                ELSE Add(tasks, Task("closeTicket", "patch", ticketId, ""))
    /\ toasts' = <<>>
    /\ UNCHANGED href
    /\ SupportFrame
    /\ UNCHANGED <<chatVars, acceptVars, queueVars>>

\* closeTicket(), from the PATCH response to the first queue refresh.
CloseTicketDone ==
    \E t \in InFlight, st \in ResponseStatus :
        /\ phase = "ready"
        /\ t.fn = "closeTicket"
        /\ Deliver("closeTicket.response", t.arg, st)
        /\ IF GotOk(st)
           THEN /\ toasts' = <<"success">>
                /\ tasks' = Del(tasks, t) (+)
                            SetToBag(Awaited(loadUnassignedTickets("closeTicket"), t.arg))
           ELSE /\ toasts' = <<"error">>
                /\ tasks' = Del(tasks, t)
        /\ asked' = FALSE
        /\ SupportFrame
        /\ UNCHANGED <<chatVars, acceptVars, queueVars>>

----------------------------------------------------------------------------
Init ==
    /\ location = "index.html" /\ phase = "loading" /\ href = ""
    /\ token \in BOOLEAN /\ userData \in BOOLEAN
    /\ FreshPage

Next ==
    \/ DOMContentLoaded
    \/ Unload
    \/ CheckSupportStatusDone
    \/ LoadUserTicketsDone(0, 1)
    \/ LoadUserStatsDone
    \/ \E tab \in {"home", "create", "profile"} : switchTab(tab)
    \/ logout
    \/ WsOpen
    \/ WsError
    \/ WsClose
    \/ TimerFire

Spec == Init /\ [][Next]_vars

----------------------------------------------------------------------------
(* The stored session: a page opened with a complete or an empty session,  *)
(* then sign-in, registration, the main page's requests, the profile form  *)
(* and logout.                                                             *)
InitSession ==
    /\ location \in Pages /\ phase = "loading" /\ href = ""
    /\ token \in BOOLEAN /\ userData = token
    /\ FreshPage

NextSession ==
    \/ DOMContentLoaded
    \/ Unload
    \/ handleLogin
    \/ HandleLoginDone
    \/ \E password, confirmPassword \in Passwords :
           handleRegister(password, confirmPassword)
    \/ HandleRegisterDone
    \/ LoginRedirect
    \/ CheckSupportStatusDone
    \/ LoadUserTicketsDone(0, 1)
    \/ LoadUserStatsDone
    \/ \E tab \in {"home", "profile"} : switchTab(tab)
    \/ \E changed \in BOOLEAN : handleProfileUpdate(changed)
    \/ HandleProfileUpdateDone
    \/ logout

SpecSession == InitSession /\ [][NextSession]_vars

----------------------------------------------------------------------------
(* The list view of a signed-in user who is not support staff: the state   *)
(* initializeApp leaves, then filter changes, page changes and live        *)
(* notifications.                                                          *)
InitList ==
    /\ location = "index.html" /\ phase = "ready" /\ href = ""
    /\ token = TRUE /\ userData = TRUE
    /\ authToken = TRUE /\ isSupportUser = FALSE /\ initPc = "done"
    /\ supportTabs = FALSE
    /\ tasks = SetToBag({ListTask(1)})
    /\ toasts = <<>> /\ asked = FALSE
    /\ event = [op |-> "checkSupportStatus", arg |-> Null, st |-> "ok",
                ret |-> "false"]
    /\ clears = 0
    /\ activeTab = "home" /\ currentPage = 1 /\ totalPages = 1
    /\ currentFilters = NoFilters /\ served = <<>> /\ grid = <<>>
    /\ pagination = NoPagination
    /\ lastRequest = Params(1, NoFilters) /\ pageSetBy = ""
    /\ sockets = <<"connecting">> /\ websocket = "live" /\ timers = EmptyBag
    /\ currentTicketId = Null /\ modalVisible = FALSE /\ shownTicket = Null
    /\ chatMessages = <<>> /\ chatInput = <<>> /\ controls = FALSE
    /\ chatPriority = "" /\ badge = ""
    /\ currentAcceptTicketId = Null /\ acceptVisible = FALSE
    /\ unassignedGrid = {} /\ assignedGrid = {}

NextList ==
    \/ \E c \in FilterControls : applyFilters(c)
    \/ \E page \in ClickTargets(pagination) : changePage(page)
    \/ LoadUserTicketsDone(0, MaxPages)
    \/ Unload
    \/ DOMContentLoaded

SpecList == InitList /\ [][NextList]_vars

\* The list view with the live-update channel: socket messages, page changes
\* and tab switches, and the list responses in any order.
NextNotify ==
    \/ WsOpen
    \/ WsMessage
    \/ \E page \in ClickTargets(pagination) : changePage(page)
    \/ \E tab \in {"home", "create"} : switchTab(tab)
    \/ LoadUserTicketsDone(1, MaxNotifyPages)
    \/ Unload
    \/ DOMContentLoaded

SpecNotify == InitList /\ [][NextNotify]_vars

\* The page controls: list responses reporting up to MaxPagerPages pages and
\* clicks on the controls they render.
NextPager ==
    \/ \E page \in ClickTargets(pagination) : changePage(page)
    \/ LoadUserTicketsDone(0, MaxPagerPages)
    \/ Unload
    \/ DOMContentLoaded

SpecPager == InitList /\ [][NextPager]_vars

\* One list response with up to MaxSortLen tickets, rendered.
NextSort == LoadUserTicketsDone(MaxSortLen, 1)

SpecSort == InitList /\ [][NextSort]_vars

----------------------------------------------------------------------------
(* The support console: the state checkAuthentication leaves for a signed-in *)
(* user, with the /support/check request of initializeApp in flight, then    *)
(* the tabs, the queues, the accept flow and the chat session.               *)
InitSupport ==
    /\ location = "index.html" /\ phase = "ready" /\ href = ""
    /\ token = TRUE /\ userData = TRUE
    /\ authToken = TRUE /\ isSupportUser = FALSE /\ initPc = "support"
    /\ supportTabs = FALSE
    /\ tasks = SetToBag({Task("checkSupportStatus", "fetch", Null, "")})
    /\ toasts = <<>> /\ asked = FALSE
    /\ event = Ev("DOMContentLoaded", Null)
    /\ clears = 0
    /\ activeTab = "home" /\ currentPage = 1 /\ totalPages = 1
    /\ currentFilters = NoFilters /\ served = <<>> /\ grid = <<>>
    /\ pagination = NoPagination
    /\ lastRequest = NoRequest /\ pageSetBy = ""
    /\ sockets = <<>> /\ websocket = "null" /\ timers = EmptyBag
    /\ currentTicketId = Null /\ modalVisible = FALSE /\ shownTicket = Null
    /\ chatMessages = <<>> /\ chatInput = <<>> /\ controls = FALSE
    /\ chatPriority = "" /\ badge = ""
    /\ currentAcceptTicketId = Null /\ acceptVisible = FALSE
    /\ unassignedGrid = {} /\ assignedGrid = {}

NextSupport ==
    \/ CheckSupportStatusDone
    \/ LoadUserTicketsDone(0, 1)
    \/ LoadUserStatsDone
    \/ \E tab \in AllTabs : switchTab(tab)
    \/ LoadUnassignedTicketsDone({{1}})
    \/ LoadAssignedTicketsDone({{1}})
    \/ \E ticketId \in Tickets : showAcceptTicketModal(ticketId)
    \/ LoadTicketForAcceptDone
    \/ closeAcceptModal
    \/ \E ticketId \in Tickets : openSupportTicketModal(ticketId)
    \/ OpenTicketDone({"nizkiy"})
    \/ OpenMessagesDone({<<>>})
    \/ OpenMarkReadDone
    \/ CloseSupportModal
    \/ Unload
    \/ DOMContentLoaded

SpecSupport == InitSupport /\ [][NextSupport]_vars

----------------------------------------------------------------------------
(* The chat session of a support user: the state after startup, a switch to *)
(* the assigned tab and a queue response listing every ticket.              *)
InitChat ==
    /\ location = "index.html" /\ phase = "ready" /\ href = ""
    /\ token = TRUE /\ userData = TRUE
    /\ authToken = TRUE /\ isSupportUser = TRUE /\ initPc = "done"
    /\ supportTabs = TRUE
    /\ tasks = EmptyBag
    /\ toasts = <<>> /\ asked = FALSE
    /\ event = [op |-> "loadAssignedTickets", arg |-> Null, st |-> "ok",
                ret |-> "response"]
    /\ clears = 0
    /\ activeTab = "assigned" /\ currentPage = 1 /\ totalPages = 0
    /\ currentFilters = NoFilters /\ served = <<>> /\ grid = <<>>
    /\ pagination = NoPagination
    /\ lastRequest = Params(1, NoFilters) /\ pageSetBy = ""
    /\ sockets = <<"connecting">> /\ websocket = "live" /\ timers = EmptyBag
    /\ currentTicketId = Null /\ modalVisible = FALSE /\ shownTicket = Null
    /\ chatMessages = <<>> /\ chatInput = <<>> /\ controls = FALSE
    /\ chatPriority = "" /\ badge = ""
    /\ currentAcceptTicketId = Null /\ acceptVisible = FALSE
    /\ unassignedGrid = {} /\ assignedGrid = Tickets

NextChat ==
    \/ \E ticketId \in Tickets : openSupportTicketModal(ticketId)
    \/ OpenTicketDone({"nizkiy"})
    \/ OpenMessagesDone(Histories)
    \/ OpenMarkReadDone
    \/ CloseSupportModal
    \/ TypeChatInput
    \/ sendMessage
    \/ SendMessageDone
    \/ \E ticketId \in Ids : updateTicketPriority(ticketId)
    \/ UpdateTicketPriorityDone({"nizkiy"})
    \/ \E ticketId \in Ids, answer \in BOOLEAN : closeTicket(ticketId, answer)
    \/ CloseTicketDone
    \/ LoadUnassignedTicketsDone({{}})
    \/ LoadAssignedTicketsDone({Tickets})
    \/ Unload
    \/ DOMContentLoaded

SpecChat == InitChat /\ [][NextChat]_vars

\* The chat session with the priority control: tickets of either priority,
\* the select changed by the user, and the server answering a priority update
\* with either priority.
NextPriority ==
    \/ \E ticketId \in Tickets : openSupportTicketModal(ticketId)
    \/ OpenTicketDone(Priorities)
    \/ OpenMessagesDone({<<"in">>})
    \/ OpenMarkReadDone
    \/ CloseSupportModal
    \/ SelectChatPriority
    \/ \E ticketId \in Tickets : updateTicketPriority(ticketId)
    \/ UpdateTicketPriorityDone(Priorities)
    \/ LoadUnassignedTicketsDone({{}})
    \/ LoadAssignedTicketsDone({Tickets})
    \/ Unload
    \/ DOMContentLoaded

SpecPriority == InitChat /\ [][NextPriority]_vars

----------------------------------------------------------------------------
(* The accept flow of a support user: the state after startup, a switch to *)
(* the unassigned tab and a queue response listing every ticket.           *)
InitAccept ==
    /\ location = "index.html" /\ phase = "ready" /\ href = ""
    /\ token = TRUE /\ userData = TRUE
    /\ authToken = TRUE /\ isSupportUser = TRUE /\ initPc = "done"
    /\ supportTabs = TRUE
    /\ tasks = EmptyBag
    /\ toasts = <<>> /\ asked = FALSE
    /\ event = [op |-> "loadUnassignedTickets", arg |-> Null, st |-> "ok",
                ret |-> "response"]
    /\ clears = 0
    /\ activeTab = "unassigned" /\ currentPage = 1 /\ totalPages = 0
    /\ currentFilters = NoFilters /\ served = <<>> /\ grid = <<>>
    /\ pagination = NoPagination
    /\ lastRequest = Params(1, NoFilters) /\ pageSetBy = ""
    /\ sockets = <<"connecting">> /\ websocket = "live" /\ timers = EmptyBag
    /\ currentTicketId = Null /\ modalVisible = FALSE /\ shownTicket = Null
    /\ chatMessages = <<>> /\ chatInput = <<>> /\ controls = FALSE
    /\ chatPriority = "" /\ badge = ""
    /\ currentAcceptTicketId = Null /\ acceptVisible = FALSE
    /\ unassignedGrid = Tickets /\ assignedGrid = {}

NextAccept ==
    \/ \E ticketId \in Tickets : showAcceptTicketModal(ticketId)
    \/ LoadTicketForAcceptDone
    \/ closeAcceptModal
    \/ confirmAcceptTicket
    \/ ConfirmAcceptAssignDone
    \/ ConfirmAcceptPriorityDone
    \/ LoadUnassignedTicketsDone(QueueLists)
    \/ LoadAssignedTicketsDone(QueueLists)
    \/ Unload
    \/ DOMContentLoaded

SpecAccept == InitAccept /\ [][NextAccept]_vars

\* The event loop runs a pending timer callback as long as the page lives.
SpecLive == Spec /\ WF_vars(TimerFire)

\* A page opened with any content of the two storage keys, left to itself:
\* the page-load checks, the startup requests and the live-update channel.
InitLoad ==
    /\ location \in Pages /\ phase = "loading" /\ href = ""
    /\ token \in BOOLEAN /\ userData \in BOOLEAN
    /\ FreshPage

NextLoad ==
    \/ DOMContentLoaded
    \/ Unload
    \/ CheckSupportStatusDone
    \/ LoadUserTicketsDone(0, 1)
    \/ WsOpen
    \/ WsError
    \/ WsClose
    \/ TimerFire

\* The browser finishes every page load it has started and follows every
\* pending navigation.
SpecLoad ==
    InitLoad /\ [][NextLoad]_vars /\ WF_vars(DOMContentLoaded) /\ WF_vars(Unload)

----------------------------------------------------------------------------
(* Claims about the session and the live-update channel *)

\* C1 (as stated): a 401 clears auth_token and user_data, redirects to
\* login.html and hands the caller no response; the clearing happens exactly
\* once, also when several calls in flight each return 401.
C1_ClearedExactlyOnce ==
    /\ event.st = "401" =>
           ~token /\ ~userData /\ href = "login.html" /\ event.ret = "undefined"
    /\ clears <= 1

\* C1 (amended): every 401 delivered by authorizedFetch clears auth_token and
\* user_data, redirects to login.html and hands the caller no response; the
\* clearing is done once per 401 response, so calls in flight that each
\* return 401 each clear again.
C1_ClearsOnEvery401 ==
    [][event'.st = "401" =>
          /\ ~token' /\ ~userData' /\ href' = "login.html"
          /\ event'.ret = "undefined"
          /\ clears' = Min(clears + 1, MaxClears)]_vars

\* Two calls were in flight and the second 401 has just been handled.
C1_Witness == event.st = "401" /\ clears = 2 /\ ~token /\ ~userData

\* C4: every close event of the live-update socket schedules exactly one
\* connectWebSocket with the 5000 ms delay, a throw of the constructor in a
\* timer-run attempt schedules one with the 10000 ms delay, and while the page
\* lives every close is eventually followed by a new connection attempt.
C4_ReconnectAfterClose ==
    /\ [][event'.op = "ws.onclose" => timers' = Add(timers, ReconnectDelay)]_vars
    /\ [][event'.op = "connectWebSocket" /\ event'.ret = "throw" =>
              /\ timers' = Add(Del(timers, event'.arg), RetryDelay)
              /\ sockets' = sockets]_vars
    /\ (event.op = "ws.onclose") ~> (event.op = "connectWebSocket" \/ phase = "loading")

\* A timer scheduled by a close event has fired and opened a new socket.
C4_Witness ==
    /\ event.op = "connectWebSocket" /\ event.arg = ReconnectDelay
    /\ event.ret = "socket" /\ sockets = <<"connecting">>

\* C10: on load of the main page with auth_token or user_data missing,
\* checkAuthentication redirects to login.html and initializeApp never runs:
\* no request is sent, no socket is opened and no timer is set.
C10_NoSessionNoStart ==
    /\ [][(phase = "loading" /\ phase' = "ready" /\ location = "index.html"
             /\ (~token \/ ~userData)) =>
              /\ href' = "login.html" /\ initPc' = "none" /\ ~authToken'
              /\ tasks' = EmptyBag /\ sockets' = <<>> /\ timers' = EmptyBag]_vars
    /\ []((location = "index.html" /\ ~authToken) =>
              /\ initPc = "none" /\ tasks = EmptyBag
              /\ sockets = <<>> /\ timers = EmptyBag)

\* C5: every filter change sets currentPage to 1 and sends a list request for
\* page 1 with the filters just built, and once that change's loading has
\* settled the page marked as current in the pagination is page 1.
C5_FilterChangeShowsPage1 ==
    /\ [][event'.op = "applyFilters" =>
              /\ currentPage' = 1
              /\ lastRequest' = Params(1, currentFilters')
              /\ tasks' = Add(tasks, ListTask(1))]_vars
    /\ []((pageSetBy = "applyFilters" /\ tasks = EmptyBag /\ pagination.shown) =>
              pagination.active = {1})

\* The rank the claim gives the statuses; a status outside it counts as open.
ClaimRank(status) ==
    CASE status = "otkryt" -> 1
      [] status = "v rabote" -> 2
      [] status = "zakryt" -> 3
      [] OTHER -> 1

\* C6: the rendered list is a permutation of the list the server returned,
\* sorted by the rank open < in progress < closed, so every open ticket comes
\* before every closed one, and tickets of equal rank keep their server order.
C6_SortedByStatusRank ==
    LET n == Len(grid)
    IN /\ n = Len(served)
       /\ {grid[i].idx : i \in 1..n} = 1..n
       /\ \A i \in 1..n : grid[i] = served[grid[i].idx]
       /\ \A i, j \in 1..n :
              i < j => ClaimRank(grid[i].status) <= ClaimRank(grid[j].status)
       /\ \A i, j \in 1..n :
              (grid[i].status = "otkryt" /\ grid[j].status = "zakryt") => i < j
       /\ \A i, j \in 1..n :
              (i < j /\ ClaimRank(grid[i].status) = ClaimRank(grid[j].status)) =>
                  grid[i].idx < grid[j].idx

\* The server sent closed, in progress, open and the list is rendered reversed.
C6_Witness ==
    /\ Len(served) = 3 /\ event.op = "loadUserTickets"
    /\ served[1].status = "zakryt" /\ served[2].status = "v rabote"
    /\ served[3].status = "otkryt"
    /\ grid = <<served[3], served[2], served[1]>>

\* The main page has loaded with a token but without user data.
C10_Witness ==
    /\ location = "index.html" /\ phase = "ready" /\ token /\ ~userData
    /\ href = "login.html" /\ initPc = "none"

----------------------------------------------------------------------------
(* Claims about the support console *)

\* C2: in every reachable state, if the chat modal is not visible then
\* currentTicketId is null, and if it is visible then currentTicketId is
\* non-null and is the id of the ticket the modal shows.
C2_PointerMatchesModal ==
    /\ ~modalVisible => currentTicketId = Null
    /\ modalVisible => currentTicketId # Null /\ currentTicketId = shownTicket

\* C3: updateTicketPriority(id) and closeTicket(id) called with an id that is
\* empty or differs from currentTicketId send no request, ask for no
\* confirmation, show nothing and leave the modal, the ticket on display and
\* currentTicketId as they were.
C3_WrongIdIsNoOp ==
    [][(/\ event'.op \in {"updateTicketPriority", "closeTicket"}
        /\ (event'.arg \in {Null, EmptyId} \/ event'.arg # currentTicketId)) =>
          /\ tasks' = tasks
          /\ ~asked' /\ toasts' = <<>>
          /\ UNCHANGED <<chatVars, href>>]_vars

\* closeTicket has just been called for a ticket other than the one on display.
C3_Witness ==
    /\ event.op = "closeTicket" /\ event.arg \in Tickets
    /\ modalVisible /\ currentTicketId \in Tickets /\ event.arg # currentTicketId
    /\ ~asked /\ tasks = EmptyBag

C8_EmptySendIsNoOp ==
    [][(/\ event'.op = "sendMessage"
        /\ (Trim(chatInput) = <<>> \/ currentTicketId = Null)) =>
          /\ tasks' = tasks
          /\ toasts' = <<>>
          /\ UNCHANGED <<chatMessages, chatInput, currentTicketId>>]_vars

\* Send has just been pressed with a blank in the input of an open session.
C8_Witness ==
    /\ event.op = "sendMessage" /\ chatInput = <<" ">>
    /\ modalVisible /\ currentTicketId \in Tickets
    /\ tasks = EmptyBag

\* The handlers whose requests go to the support endpoints.
SupportHandlers ==
    {"loadUnassignedTickets", "loadAssignedTickets", "loadTicketForAccept",
     "confirmAcceptTicket", "openSupportTicketModal", "sendMessage",
     "updateTicketPriority", "closeTicket"}

\* C9: while the support flag is false no support tab or section exists, no
\* request of the support console is in flight (queues, assign, mark-read,
\* chat), and neither the chat session nor the accept modal is open.
C9_NoSupportWithoutFlag ==
    ~isSupportUser =>
        /\ ~supportTabs
        /\ \A t \in InFlight : t.fn \notin SupportHandlers
        /\ ~modalVisible /\ currentTicketId = Null /\ shownTicket = Null
        /\ ~acceptVisible /\ currentAcceptTicketId = Null
        /\ unassignedGrid = {} /\ assignedGrid = {}

\* Startup found the flag false and the user has since switched to the profile.
C9_Witness ==
    /\ ~isSupportUser /\ initPc = "done"
    /\ event.op = "switchTab" /\ activeTab = "profile"
    /\ BagIn(Task("loadUserStats", "fetch", Null, ""), tasks)

----------------------------------------------------------------------------
(* Claims about the chat session and the accept flow, continued *)

\* C11: what a send, a priority update or a close-ticket started for ticket T
\* does when its response arrives, it does only while currentTicketId is still
\* T: otherwise no echo is appended, no badge or selector is updated, and the
\* modal is not hidden nor the pointer reset.
C11_ResponseOnlyForCurrentTicket ==
    /\ [][(/\ event'.op \in {"sendMessage.response", "updateTicketPriority.response"}
            /\ event'.arg # currentTicketId) =>
              UNCHANGED <<chatMessages, chatInput, badge, chatPriority>>]_vars
    /\ [][(/\ event'.op = "loadAssignedTickets" /\ event'.arg \in Tickets
            /\ event'.arg # currentTicketId) =>
              UNCHANGED <<modalVisible, currentTicketId, shownTicket, chatMessages>>]_vars

\* C12: after a successful assignment, whatever way the priority update fails
\* (rejected request or non-2xx response), a warning toast and no error toast
\* is shown, the accept modal closes and both queues are refreshed.
C12_EveryPriorityFailureNonFatal ==
    [][(event'.op = "confirmAcceptTicket.priority" /\ event'.st # "ok") =>
          /\ \E i \in DOMAIN toasts' : toasts'[i] = "warning"
          /\ \A i \in DOMAIN toasts' : toasts'[i] # "error"
          /\ ~acceptVisible' /\ currentAcceptTicketId' = Null
          /\ \A q \in RefreshBoth : CopiesIn(q, tasks') > CopiesIn(q, tasks)]_vars

\* C13: when the assignment call fails (non-ok response or rejected request),
\* an error toast is shown, no priority PATCH and no queue request is sent, and
\* the accept modal and its target stay as they are.
C13_AssignFailureAborts ==
    [][(event'.op = "confirmAcceptTicket.assign" /\ event'.st # "ok") =>
          /\ toasts' = <<"error">>
          /\ tasks' \sqsubseteq tasks
          /\ BagCardinality(tasks') = BagCardinality(tasks) - 1
          /\ UNCHANGED <<acceptVars, queueVars>>]_vars

\* The assign request of the ticket in the accept modal has just failed: the
\* modal is still open on that ticket and nothing is in flight.
C13_Witness ==
    /\ event.op = "confirmAcceptTicket.assign" /\ event.st \in {"err", "reject"}
    /\ toasts = <<"error">>
    /\ acceptVisible /\ currentAcceptTicketId = event.arg
    /\ event.arg \in Tickets
    /\ tasks = EmptyBag

\* C14: a close by the close button or a backdrop click ends with the chat
\* modal hidden and currentTicketId null; so does the close-ticket path after a
\* successful PATCH, which also ends with the message list and the ticket
\* details empty.
C14_CloseHidesAndResets ==
    /\ [][event'.op = "closeSupportModal" =>
              ~modalVisible' /\ currentTicketId' = Null]_vars
    /\ [][(/\ event'.op = "loadAssignedTickets"
            /\ \E t \in InFlight : /\ t.fn = "loadAssignedTickets"
                                    /\ t.pc = "closeTicket"
                                    /\ tasks' = Del(tasks, t)) =>
              /\ ~modalVisible' /\ currentTicketId' = Null
              /\ chatMessages' = <<>> /\ shownTicket' = Null /\ badge' = ""]_vars

\* The close button was used on an open session: modal hidden, pointer null,
\* the ticket's content still in the hidden modal.
C14_Witness ==
    /\ event.op = "closeSupportModal" /\ event.arg \in Tickets
    /\ ~modalVisible /\ currentTicketId = Null
    /\ shownTicket = event.arg /\ chatMessages # <<>>

\* The close-ticket path has run to its end: the modal is hidden and emptied.
C14_WitnessCloseTicket ==
    /\ event.op = "loadAssignedTickets" /\ event.arg \in Tickets
    /\ ~modalVisible /\ currentTicketId = Null
    /\ chatMessages = <<>> /\ shownTicket = Null /\ badge = ""
    /\ controls

\* C15: when the mark-read call of an opened chat session fails (non-ok
\* response or rejected request), no toast is shown, the chat modal keeps its
\* visibility and currentTicketId is unchanged.
C15_MarkReadFailureIgnored ==
    [][(event'.op = "openSupportTicketModal.markread" /\ event'.st # "ok") =>
          /\ toasts' = <<>>
          /\ UNCHANGED <<modalVisible, currentTicketId>>]_vars

----------------------------------------------------------------------------
(* Claims about the live-update channel *)

\* C16: a socket message produces a toast exactly when its event is created,
\* updated or comment_added and its ticket's reporter is the session user;
\* every other message (connected, unknown event, no ticket, another
\* reporter, unparsable data) produces no toast and no request.  A list
\* request is issued exactly when a toast is produced and the ticket list tab
\* is the active tab.
C16_ToastAndRefetchExactlyWhen ==
    [][event'.op = "ws.onmessage" =>
          LET toast == /\ event'.st \in {"created", "updated", "comment_added"}
                       /\ event'.ret = "mine"
          IN /\ toasts' = IF toast THEN <<"success">> ELSE <<>>
             /\ tasks' = IF toast /\ activeTab = "home"
                         THEN Add(tasks, NotifyTask(currentPage)) ELSE tasks]_vars

\* An `updated` message about a ticket of the session user has just arrived on
\* the ticket list tab: toast shown, list request in flight.
C16_Witness ==
    /\ event.op = "ws.onmessage" /\ event.st = "updated" /\ event.ret = "mine"
    /\ toasts = <<"success">>
    /\ activeTab = "home"
    /\ NotifyTask(currentPage) \in InFlight

\* C17: a list request issued by a live update and one issued by the user can
\* be in flight together, and neither is cancelled or ignored: every ok list
\* response, whichever request it answers and whatever else is in flight, is
\* rendered into the grid and the pagination, so what is shown once both have
\* settled comes from the response that resolved last.
C17_LastResponseWins ==
    [][(/\ event'.op \in {"loadUserTickets", "loadUserTickets.notify"}
        /\ event'.st = "ok") =>
          /\ grid' = SortTickets(served')
          /\ pagination' = renderPagination(totalPages', currentPage')
          /\ BagCardinality(tasks') = BagCardinality(tasks) - 1
          /\ tasks' \sqsubseteq tasks]_vars

\* Both requests have settled and the one that resolved last is the live-update
\* request, issued before the user's changePage request for another page: the
\* grid shows its tickets.
C17_Witness ==
    /\ event.op = "loadUserTickets.notify" /\ event.st = "ok"
    /\ tasks = EmptyBag
    /\ pageSetBy = "changePage" /\ lastRequest.page = currentPage
    /\ event.arg # lastRequest.page
    /\ grid = SortTickets(served) /\ grid # <<>>

----------------------------------------------------------------------------
(* Claims about what the chat actions change *)

\* C18: a successful send appends the echoed message, and nothing else, to the
\* end of the displayed list, keeps the earlier messages in place, sends no
\* further request and empties the input; a failed send leaves list and input
\* as they are and shows an error toast.
C18_SendAppendsEcho ==
    [][event'.op = "sendMessage.response" =>
          /\ tasks' \sqsubseteq tasks
          /\ BagCardinality(tasks') = BagCardinality(tasks) - 1
          /\ IF event'.st = "ok"
             THEN /\ chatMessages' = chatMessages \o <<"out">>
                  /\ chatInput' = <<>>
                  /\ toasts' = <<>>
             ELSE /\ UNCHANGED <<chatMessages, chatInput>>
                  /\ toasts' = <<"error">>]_vars

\* The echo of a sent message has just been appended after a received one.
C18_Witness ==
    /\ event.op = "sendMessage.response" /\ event.st = "ok"
    /\ modalVisible /\ currentTicketId = event.arg
    /\ chatMessages = <<"in", "out">> /\ chatInput = <<>>
    /\ tasks = EmptyBag

\* C19: closeTicket for the current ticket sends the status PATCH only when
\* confirm() was answered with yes; a declined confirm sends nothing and shows
\* nothing; a failed PATCH (non-ok response, no response, rejected request)
\* shows an error toast; in both cases the modal, currentTicketId and the chat
\* content stay as they are and no queue is refreshed.
C19_DeclineOrFailureKeepsSession ==
    /\ [][(event'.op = "closeTicket" /\ tasks' # tasks) =>
              /\ event'.ret = "confirmed" /\ asked'
              /\ event'.arg = currentTicketId
              /\ tasks' = Add(tasks, Task("closeTicket", "patch", event'.arg, ""))]_vars
    /\ [][(event'.op = "closeTicket" /\ event'.ret = "declined") =>
              /\ tasks' = tasks
              /\ toasts' = <<>>
              /\ UNCHANGED <<chatVars, queueVars>>]_vars
    /\ [][(event'.op = "closeTicket.response" /\ event'.st # "ok") =>
              /\ toasts' = <<"error">>
              /\ tasks' \sqsubseteq tasks
              /\ UNCHANGED <<chatVars, queueVars>>]_vars

\* The close-ticket PATCH of the open session has just failed: the session is
\* still open with its messages, nothing is in flight.
C19_Witness ==
    /\ event.op = "closeTicket.response" /\ event.st \in {"err", "reject"}
    /\ toasts = <<"error">>
    /\ modalVisible /\ currentTicketId = event.arg /\ shownTicket = event.arg
    /\ chatMessages # <<>>
    /\ tasks = EmptyBag

\* confirm() has just been declined on the open session.
C19_WitnessDeclined ==
    /\ event.op = "closeTicket" /\ event.ret = "declined" /\ asked
    /\ modalVisible /\ currentTicketId = event.arg
    /\ tasks = EmptyBag

\* C20: when the priority PATCH for the ticket of the open session succeeds,
\* the badge and the selector show the priority of the response, the message
\* list, the modal and currentTicketId stay as they are, and the unassigned
\* queue is requested, the assigned queue after it; when the PATCH fails, an
\* error toast is all that changes and no queue is requested.
C20_PriorityShownFromResponse ==
    /\ [][(/\ event'.op = "updateTicketPriority.response" /\ event'.st = "ok"
            /\ event'.arg = currentTicketId /\ modalVisible) =>
              /\ badge' = event'.ret /\ chatPriority' = event'.ret
              /\ event'.ret \in Priorities
              /\ UNCHANGED <<chatMessages, modalVisible, currentTicketId>>
              /\ \A q \in Awaited(loadUnassignedTickets("updateTicketPriority"),
                                   event'.arg) :
                     CopiesIn(q, tasks') = CopiesIn(q, tasks) + 1]_vars
    /\ [][(/\ event'.op = "loadUnassignedTickets"
            /\ \E t \in InFlight : /\ t.fn = "loadUnassignedTickets"
                                    /\ t.pc = "updateTicketPriority"
                                    /\ t.arg = event'.arg
                                    /\ CopiesIn(t, tasks') = CopiesIn(t, tasks) - 1) =>
              \A q \in Awaited(loadAssignedTickets("updateTicketPriority"),
                                event'.arg) :
                  CopiesIn(q, tasks') = CopiesIn(q, tasks) + 1]_vars
    /\ [][(event'.op = "updateTicketPriority.response" /\ event'.st # "ok") =>
              /\ toasts' = <<"error">>
              /\ tasks' \sqsubseteq tasks
              /\ UNCHANGED <<chatVars, queueVars>>]_vars

\* A priority update of the open session has just succeeded with a priority
\* other than the ticket was opened with: badge and selector show it, the
\* messages are still there and the unassigned queue is being fetched.
C20_Witness ==
    /\ event.op = "updateTicketPriority.response" /\ event.st = "ok"
    /\ event.arg = currentTicketId /\ modalVisible /\ shownTicket = currentTicketId
    /\ event.ret = "vysokiy" /\ badge = "vysokiy" /\ chatPriority = "vysokiy"
    /\ chatMessages = <<"in">>
    /\ tasks = SetToBag(Awaited(loadUnassignedTickets("updateTicketPriority"),
                                event.arg))

----------------------------------------------------------------------------
(* Claims about the page controls *)

\* C21: renderPagination, for total_pages > 1, renders a page button for
\* exactly the pages i with max(1, currentPage - 2) <= i <= min(total_pages,
\* currentPage + 2), marks among them exactly the button of currentPage as
\* active, disables the previous control iff currentPage <= 1 and the next
\* control iff currentPage >= total_pages; for total_pages <= 1 it renders no
\* control.
C21_PaginationWindow ==
    [][(event'.op = "loadUserTickets" /\ event'.st = "ok") =>
          IF totalPages' <= 1
          THEN /\ ~pagination'.shown
               /\ ClickTargets(pagination') = {}
          ELSE /\ pagination'.shown
               /\ \A i \in 1..(MaxPagerPages + 3) :
                      /\ i \in pagination'.pages <=>
                            /\ i >= currentPage' - 2 /\ i >= 1
                            /\ i <= currentPage' + 2 /\ i <= totalPages'
                      /\ i \in pagination'.active <=>
                            (i \in pagination'.pages /\ i = currentPage')
               /\ pagination'.pages \subseteq 1..(MaxPagerPages + 3)
               /\ pagination'.prevDisabled <=> currentPage' <= 1
               /\ pagination'.nextDisabled <=> currentPage' >= totalPages']_vars

\* Page 4 of 7 has just been rendered: buttons 2..6, page 4 active, both
\* arrows enabled.
C21_Witness ==
    /\ event.op = "loadUserTickets" /\ event.st = "ok"
    /\ currentPage = 4 /\ totalPages = 7
    /\ pagination.shown /\ pagination.pages = 2..6 /\ pagination.active = {4}
    /\ ~pagination.prevDisabled /\ ~pagination.nextDisabled

----------------------------------------------------------------------------
(* Claims about the stored session and the page load *)

\* C22: when password and confirmation of the registration form differ,
\* handleRegister shows an error, sends no request and leaves auth_token and
\* user_data as they are.
C22_MismatchSendsNothing ==
    [][(event'.op = "handleRegister" /\ event'.st = "different") =>
          /\ toasts' = <<"error">>
          /\ tasks' = tasks
          /\ UNCHANGED <<token, userData>>]_vars

\* The registration form has just been submitted with two different
\* passwords.
C22_Witness ==
    /\ event.op = "handleRegister" /\ event.st = "different"
    /\ location = "register.html"
    /\ toasts = <<"error">> /\ tasks = EmptyBag
    /\ ~token /\ ~userData

\* C23: auth_token and user_data are in storage both or neither, whatever
\* sign-in, registration, logout, 401 responses and profile updates have
\* happened and in whatever order their responses arrived.
C23_TokenAndUserTogether == token <=> userData

\* C24: whatever auth_token and user_data hold when a page is opened, the
\* page-load checks stop redirecting: from some moment on the browser stays on
\* a loaded page with no navigation pending.
C24_RedirectsTerminate == <>[](phase = "ready" /\ href = "")

\* C25: within one confirmAcceptTicket run the priority PATCH goes to the
\* ticket the assignment call was sent for, a ticket id that is not null,
\* whatever happened to the accept modal while the assignment was in flight.
C25_SameTicketForBothCalls ==
    [][(event'.op = "confirmAcceptTicket.assign" /\ event'.st = "ok") =>
          /\ event'.arg \in Tickets
          /\ \E t \in BagToSet(tasks') :
                 /\ t.fn = "confirmAcceptTicket" /\ t.pc = "priority"
                 /\ t.arg = event'.arg
                 /\ CopiesIn(t, tasks') = CopiesIn(t, tasks) + 1]_vars

\* C26: once initializeApp has called connectWebSocket the page holds exactly
\* one live-update socket that has not closed or one pending reconnect timer,
\* never both and never several, also after logout() has closed the socket.
C26_OneSocketOrTimer ==
    (phase = "ready" /\ initPc = "done") =>
        Len(sockets) + CopiesIn(ReconnectDelay, timers) + CopiesIn(RetryDelay, timers) = 1

\* logout() closed the socket, its onclose ran, and the reconnect timer is the
\* one thing pending.
C26_Witness ==
    /\ phase = "ready" /\ initPc = "done"
    /\ ~token /\ href = "login.html"
    /\ event.op = "ws.onclose"
    /\ sockets = <<>> /\ CopiesIn(ReconnectDelay, timers) = 1

\* C27: after any sequence of applyFilters, changePage and completed list
\* loads, those requested by live-update events included, currentPage lies
\* between 1 and max(1, totalPages).
C27_PageWithinRange ==
    /\ 1 <= currentPage
    /\ currentPage <= (IF totalPages > 1 THEN totalPages ELSE 1)

\* C28: whenever the chat modal becomes visible for a ticket, the priority
\* selector shows the priority of that ticket, the one the badge of the ticket
\* details is rendered with, also when the controls were injected in an
\* earlier session; the controls are then present.
C28_SelectorShowsTicketPriority ==
    [][(event'.op = "openSupportTicketModal.messages" /\ event'.st = "ok") =>
          /\ modalVisible' /\ controls'
          /\ chatPriority' = badge']_vars

----------------------------------------------------------------------------
(* Claims about startup and the cleared session *)

\* C29: isSupportUser becomes true only when the startup /support/check call
\* returns an ok response whose body has is_support true; after a non-ok
\* response, a 401 or a rejected request it is false; and it is written only
\* by the startup call, before the support interface is set up, and by nothing
\* afterwards for as long as the page lives.
C29_FlagOnlyFromStartupCheck ==
    /\ [][(isSupportUser' /\ ~isSupportUser) =>
              /\ event'.op = "checkSupportStatus"
              /\ event'.st = "ok" /\ event'.ret = "true"]_vars
    /\ [][(event'.op = "checkSupportStatus" /\ event'.st # "ok") =>
              ~isSupportUser']_vars
    /\ [][(isSupportUser' # isSupportUser /\ phase' = "ready") =>
              /\ event'.op = "checkSupportStatus"
              /\ initPc = "support" /\ initPc' = "done"
              /\ ~supportTabs /\ supportTabs' = isSupportUser']_vars

\* The startup check has just answered ok with is_support true: the flag is
\* set and the support tabs are there.
C29_Witness ==
    /\ event.op = "checkSupportStatus" /\ event.st = "ok" /\ event.ret = "true"
    /\ isSupportUser /\ supportTabs /\ initPc = "done"

\* C30: from the step at which authorizedFetch receives a 401 and clears the
\* stored session on, the page sends no request and opens no live-update
\* socket; a 401 on the startup /support/check call in particular is followed
\* by neither loadUserTickets nor connectWebSocket.
C30_NothingSentAfter401 ==
    [][(clears' > 0 /\ phase' = "ready") =>
          /\ tasks' \sqsubseteq tasks
          /\ Len(sockets') <= Len(sockets)]_vars
====
